---- MODULE Spec2Model ----
(***************************************************************************)
(* Bond valuation primitives of the Quantitative-Finance repository:       *)
(*   bonds/fixedrate_bond.py    class FixedRateBond (constant coupon)      *)
(*   bonds/variablerate_bond.py class BondInfo      (per-period coupons)   *)
(*   fixed_income/bondmath.py   IRR helper                                 *)
(*                                                                         *)
(* Numbers.  The code computes in IEEE doubles.  The model computes in     *)
(* exact rationals and keeps the inputs inside the region where the        *)
(* doubles are exact or where only the kind of the value matters:          *)
(*   - freq divides 360, so T = 360/freq and n_days % T are whole numbers; *)
(*   - freq is taken from frequencies for which the double computation     *)
(*     ceil(n_days/360*freq) equals the exact ceiling over the modelled    *)
(*     range of n_days (it does not for e.g. freq = 30, n_days = 372);     *)
(*   - a per-period yield y is given by the per-day growth factor g with   *)
(*     1+y = g^T, so that (1+y)**(i - t/T) = g^(i*T - t) is rational.      *)
(* The non-finite results a double computation produces (nan, inf, and the *)
(* complex number Python returns for a negative base with a fractional     *)
(* exponent) are separate kinds of value.                                  *)
(***************************************************************************)
EXTENDS Integers, Sequences, FiniteSets, TLC

VARIABLES cls, tDate, mDate, fv, ac, freq, ytm, calendarDays, n, T, t, pc, ret

vars == <<cls, tDate, mDate, fv, ac, freq, ytm, calendarDays, n, T, t, pc, ret>>

bondInputs == <<cls, tDate, mDate, fv, ac, freq, ytm, calendarDays>>

periodInfo == <<n, T, t>>

(***************************************************************************)
(* Bounds of the model.                                                    *)
(***************************************************************************)
LastYear == 2012

LastMonth == 4

(***************************************************************************)
(* Calendar dates, calendar.monthrange and date comparison.                *)
(***************************************************************************)
IsLeap(y) == (y % 4 = 0 /\ y % 100 # 0) \/ y % 400 = 0

monthrange(y, m) ==
    IF m = 2 THEN (IF IsLeap(y) THEN 29 ELSE 28)
    ELSE IF m \in {4, 6, 9, 11} THEN 30 ELSE 31

MkDate(y, m, d) == [year |-> y, month |-> m, day |-> d]

\* 2011 is a common year, 2012 a leap year
Years == 2011..LastYear

Dates ==
    { dt \in [year : Years, month : 1..LastMonth, day : 1..31] :
        dt.day <= monthrange(dt.year, dt.month) }

DateLT(a, b) ==
    \/ a.year < b.year
    \/ a.year = b.year /\ a.month < b.month
    \/ a.year = b.year /\ a.month = b.month /\ a.day < b.day

(***************************************************************************)
(* int(np.ceil(a / b)) for b > 0, exact.                                   *)
(***************************************************************************)
CeilDiv(a, b) == -((-a) \div b)

(***************************************************************************)
(* calendar_360 (identical in both classes).                               *)
(***************************************************************************)
TDayFeb(td) ==
    IF td.month = 2 /\ td.day = monthrange(td.year, td.month) THEN 30 ELSE td.day

MDayFeb(md) ==
    IF md.month = 2 /\ md.day = monthrange(md.year, md.month) THEN 30 ELSE md.day

MDayNorm_clamped(td, md) == IF MDayFeb(md) > 30 THEN 30 ELSE MDayFeb(md)

MDayNorm(td, md) ==
    IF TDayFeb(td) \in {30, 31} /\ MDayFeb(md) = 31 THEN 30 ELSE MDayFeb(md)

TDayNorm(td) == IF TDayFeb(td) > 30 THEN 30 ELSE TDayFeb(td)

NDays(td, md) ==
    360 * (md.year - td.year) + 30 * (md.month - td.month)
        + (MDayNorm(td, md) - TDayNorm(td))

PeriodCount_floor(n_days, f) == (n_days * f) \div 360

PeriodCount(n_days, f) == CeilDiv(n_days * f, 360)

PeriodLength(f) == 360 \div f

StubDays_wrapped(n_days, TT) == (TT - (n_days % TT)) % TT

StubDays(n_days, TT) == TT - (n_days % TT)

calendar_360(td, md, f) ==
    LET n_days == NDays(td, md)
        TT     == PeriodLength(f)
    IN  [ n      |-> PeriodCount(n_days, f),
          T      |-> TT,
          t      |-> StubDays(n_days, TT),
          n_days |-> n_days,
          t_day  |-> TDayNorm(td),
          m_day  |-> MDayNorm(td, md) ]

(***************************************************************************)
(* SpecCal: calendar_360 called on a bond with any two dates.              *)
(***************************************************************************)
Unset == [unset |-> TRUE]

NoRet == [call |-> "none", status |-> "none"]

CalFreqs == {1, 2, 4, 12}

Classes == {"FixedRateBond", "BondInfo"}

NumZero == [k |-> "num", p |-> 0, q |-> 1]

InitCal ==
    /\ cls \in Classes
    /\ tDate \in Dates
    /\ mDate \in Dates
    /\ freq \in CalFreqs
    /\ fv = 100
    /\ ac = 8
    /\ ytm = NumZero
    /\ calendarDays = 360
    /\ n = Unset /\ T = Unset /\ t = Unset
    /\ pc = "new"
    /\ ret = NoRet

Call_calendar_360 ==
    /\ pc = "new"
    /\ ret' = [call |-> "calendar_360", status |-> "ok"] @@ calendar_360(tDate, mDate, freq)
    /\ pc' = "returned"
    /\ UNCHANGED <<bondInputs, periodInfo>>

NextCal == Call_calendar_360

SpecCal == InitCal /\ [][NextCal]_vars

(***************************************************************************)
(* Values of Python/numpy floating-point expressions: an exact rational    *)
(* p/q in lowest terms (k = "num"), or one of the non-finite kinds         *)
(* "nan", "inf" (p carries the sign) and "complex".                        *)
(***************************************************************************)
Abs(x) == IF x < 0 THEN -x ELSE x

Sign(x) == IF x < 0 THEN -1 ELSE IF x = 0 THEN 0 ELSE 1

Min(a, b) == IF a <= b THEN a ELSE b

RECURSIVE GCD(_, _)
GCD(a, b) == IF b = 0 THEN a ELSE GCD(b, a % b)

RECURSIVE IPow(_, _)
IPow(b, e) == IF e = 0 THEN 1 ELSE b * IPow(b, e - 1)

Num(a, b) ==
    LET g == GCD(Abs(a), Abs(b))
    IN  [k |-> "num", p |-> (Sign(b) * a) \div g, q |-> Abs(b) \div g]

NaN == [k |-> "nan", p |-> 0, q |-> 1]

Inf(sgn) == [k |-> "inf", p |-> sgn, q |-> 1]

Complex == [k |-> "complex", p |-> 0, q |-> 1]

NumOne == Num(1, 1)

IsNum(a) == a.k = "num"

IsZero(a) == a.k = "num" /\ a.p = 0

\* a == b on floats: nan compares unequal to everything, itself included
FEq(a, b) ==
    /\ a.k \in {"num", "inf"}
    /\ b.k \in {"num", "inf"}
    /\ a = b

FNeg(a) == [a EXCEPT !.p = -a.p]

FAdd(a, b) ==
    IF a.k = "complex" \/ b.k = "complex" THEN Complex
    ELSE IF a.k = "nan" \/ b.k = "nan" THEN NaN
    ELSE IF a.k = "inf" /\ b.k = "inf" THEN (IF a.p = b.p THEN a ELSE NaN)
    ELSE IF a.k = "inf" THEN a
    ELSE IF b.k = "inf" THEN b
    ELSE LET l == (a.q \div GCD(a.q, b.q)) * b.q
         IN  Num(a.p * (l \div a.q) + b.p * (l \div b.q), l)

FSub(a, b) == FAdd(a, FNeg(b))

FMul(a, b) ==
    IF a.k = "complex" \/ b.k = "complex" THEN Complex
    ELSE IF a.k = "nan" \/ b.k = "nan" THEN NaN
    ELSE IF a.k = "inf" \/ b.k = "inf"
         THEN (IF a.p = 0 \/ b.p = 0 THEN NaN ELSE Inf(Sign(a.p) * Sign(b.p)))
    ELSE LET g1 == GCD(Abs(a.p), b.q)
             g2 == GCD(Abs(b.p), a.q)
         IN  Num((a.p \div g1) * (b.p \div g2), (a.q \div g2) * (b.q \div g1))

\* numpy true division: a zero divisor gives inf or nan (and a warning)
FDiv(a, b) ==
    IF a.k = "complex" \/ b.k = "complex" THEN Complex
    ELSE IF a.k = "nan" \/ b.k = "nan" THEN NaN
    ELSE IF b.k = "inf" THEN (IF a.k = "inf" THEN NaN ELSE Num(0, 1))
    ELSE IF b.p = 0 THEN (IF a.p = 0 THEN NaN ELSE Inf(Sign(a.p)))
    ELSE IF a.k = "inf" THEN Inf(Sign(a.p) * Sign(b.p))
    ELSE FMul(a, Num(b.q, b.p))

\* base ** e for a whole exponent e >= 0 (x ** 0 is 1.0 even for nan)
FPowInt(b, e) ==
    IF e = 0 THEN NumOne
    ELSE IF b.k # "num" THEN b
    ELSE Num(IPow(b.p, e), IPow(b.q, e))

(***************************************************************************)
(* Bounds of the pricing model: the largest per-day growth factor, the     *)
(* longest coupon series and the longest 30/360 span of a priced bond.     *)
(***************************************************************************)
MaxG == 2

MaxLen == 3

MaxSpan == 6

\* the g >= 0 with g^TT = b, for a whole b >= 0 of the modelled yields
RootG(b, TT) == CHOOSE g \in 0..MaxG : IPow(g, TT) = b.p

\* Python float ** Python float, exponent e/TT > 0 not whole:
\* a negative base gives a complex number
PyPowFrac(b, e, TT) ==
    IF b.k # "num" THEN b
    ELSE IF b.p < 0 THEN Complex
    ELSE Num(IPow(RootG(b, TT), e), 1)

\* Python float ** numpy.float64 (numpy.power), exponent e/TT > 0 not whole:
\* a negative base gives nan
NpPowFrac(b, e, TT) ==
    IF b.k # "num" THEN b
    ELSE IF b.p < 0 THEN NaN
    ELSE Num(IPow(RootG(b, TT), e), 1)

(***************************************************************************)
(* Fields derived in __init__ (the same in both classes).                  *)
(***************************************************************************)
self_y == FDiv(FDiv(ytm, Num(100, 1)), Num(freq, 1))

CouponPerPeriod(a) ==
    FDiv(FMul(FDiv(Num(a, 1), Num(100, 1)), Num(fv, 1)), Num(freq, 1))

\* FixedRateBond: ac is a number, pmt a numpy scalar
self_pmt == CouponPerPeriod(ac)

\* BondInfo: ac is a series, pmt a numpy array (index 1 here is pmt[0])
self_pmts == [j \in 1..Len(ac) |-> CouponPerPeriod(ac[j])]

Raise(call, exc) == [call |-> call, status |-> exc]

(***************************************************************************)
(* FixedRateBond.simplePrice and FixedRateBond.dirtyPrice.                 *)
(* 1/(1+y)**n and fv/(1+y)**n divide Python numbers: a zero divisor raises *)
(* ZeroDivisionError.  pmt/y divides a numpy scalar: it gives inf or nan.  *)
(***************************************************************************)
ClosedForm(pmt, y, nn) ==
    LET disc == FPowInt(FAdd(NumOne, y), nn)
    IN  FAdd(FMul(FDiv(pmt, y), FSub(NumOne, FDiv(NumOne, disc))),
             FDiv(Num(fv, 1), disc))

FixedRateBond_simplePrice_result ==
    IF IsZero(FPowInt(FAdd(NumOne, self_y), n))
    THEN Raise("FixedRateBond.simplePrice", "ZeroDivisionError")
    ELSE [call |-> "FixedRateBond.simplePrice", status |-> "ok",
          value |-> ClosedForm(self_pmt, self_y, n)]

FixedRateBond_dirtyPrice_result ==
    IF t = T
    THEN \* line 156 calls simplePrice(), a name bound nowhere
         Raise("FixedRateBond.dirtyPrice", "NameError")
    ELSE IF IsZero(FPowInt(FAdd(NumOne, self_y), n))
    THEN Raise("FixedRateBond.dirtyPrice", "ZeroDivisionError")
    ELSE LET dirtyPrice == FMul(ClosedForm(self_pmt, self_y, n),
                                PyPowFrac(FAdd(NumOne, self_y), t, T))
             accruedInterest == FMul(self_pmt, Num(t, T))
         IN  [call |-> "FixedRateBond.dirtyPrice", status |-> "ok",
              dirtyPrice |-> dirtyPrice,
              accruedInterest |-> accruedInterest,
              cleanPrice |-> FSub(dirtyPrice, accruedInterest),
              terms |-> n]

(***************************************************************************)
(* BondInfo.dirtyPrice.  zip(pmt, N) pairs pmt[0] with period 1 and stops  *)
(* at the shorter of the two; the coupons are numpy scalars, fv and n are  *)
(* Python numbers.                                                         *)
(***************************************************************************)
ZipLen(pmts, nn) == Min(Len(pmts), IF nn < 0 THEN 0 ELSE nn)

RECURSIVE SumOnCoupon(_, _, _)
SumOnCoupon(pmts, base, j) ==
    IF j = 0 THEN Num(0, 1)
    ELSE FAdd(SumOnCoupon(pmts, base, j - 1),
              FDiv(pmts[j], FPowInt(base, j)))

RECURSIVE SumStub(_, _, _)
SumStub(pmts, base, j) ==
    IF j = 0 THEN Num(0, 1)
    ELSE FAdd(SumStub(pmts, base, j - 1),
              FDiv(pmts[j], NpPowFrac(base, j * T - t, T)))

BondInfo_dirtyPrice_result ==
    LET pmt  == self_pmts
        base == FAdd(NumOne, self_y)
        m    == ZipLen(pmt, n)
    IN  IF t = T
        THEN IF IsZero(FPowInt(base, n))
             THEN Raise("BondInfo.dirtyPrice", "ZeroDivisionError")
             ELSE LET dirtyPrice == FAdd(SumOnCoupon(pmt, base, m),
                                         FDiv(Num(fv, 1), FPowInt(base, n)))
                      accruedInterest == Num(0, 1)
                  IN  [call |-> "BondInfo.dirtyPrice", status |-> "ok",
                       dirtyPrice |-> dirtyPrice,
                       accruedInterest |-> accruedInterest,
                       cleanPrice |-> FSub(dirtyPrice, accruedInterest),
                       terms |-> m]
        ELSE IF IsZero(PyPowFrac(base, n * T - t, T))
             THEN Raise("BondInfo.dirtyPrice", "ZeroDivisionError")
        ELSE IF Len(pmt) < 2
             THEN \* pmt[1] on an array of fewer than two coupons
                  Raise("BondInfo.dirtyPrice", "IndexError")
        ELSE LET dirtyPrice == FAdd(SumStub(pmt, base, m),
                                    FDiv(Num(fv, 1),
                                         PyPowFrac(base, n * T - t, T)))
                 accruedInterest == FMul(pmt[2], Num(t, T))
             IN  [call |-> "BondInfo.dirtyPrice", status |-> "ok",
                  dirtyPrice |-> dirtyPrice,
                  accruedInterest |-> accruedInterest,
                  cleanPrice |-> FSub(dirtyPrice, accruedInterest),
                  terms |-> m]

(***************************************************************************)
(* The residuals built by ytm_couponList, evaluated at x = g^T - 1.        *)
(***************************************************************************)
RECURSIVE FixedSum(_, _, _)
FixedSum(pmt, g, i) ==
    IF i = 0 THEN Num(0, 1)
    ELSE FAdd(FixedSum(pmt, g, i - 1),
              FDiv(pmt, Num(IPow(g, IF t = T THEN i * T ELSE i * T - t), 1)))

FixedRateBond_equation(g, price) ==
    FSub(FAdd(FixedSum(self_pmt, g, n),
              FDiv(Num(fv, 1),
                   Num(IPow(g, IF t = T THEN n * T ELSE n * T - t), 1))),
         price)

RECURSIVE SeriesSum(_, _, _)
SeriesSum(pmts, g, j) ==
    IF j = 0 THEN Num(0, 1)
    ELSE FAdd(SeriesSum(pmts, g, j - 1),
              FDiv(pmts[j], Num(IPow(g, IF t = T THEN j * T ELSE j * T - t), 1)))

BondInfo_equation(g, price) ==
    FSub(FAdd(SeriesSum(self_pmts, g, ZipLen(self_pmts, n)),
              FDiv(Num(fv, 1),
                   Num(IPow(g, IF t = T THEN n * T ELSE n * T - t), 1))),
         price)

(***************************************************************************)
(* scipy.optimize.newton(equation, x0, maxiter) without a derivative: the  *)
(* secant iteration either converges to a zero of the residual or raises   *)
(* RuntimeError after maxiter iterations.  Which of the two happens from   *)
(* x0 = 0.05 is left open.  The zeros are looked for among the yields      *)
(* x = g^T - 1, g in 1..MaxG.                                              *)
(***************************************************************************)
YieldOf(g) == Num(IPow(g, T) - 1, 1)

newton(roots) ==
    { [status |-> "ok", solver |-> "converged", root |-> YieldOf(g)] : g \in roots }
    \cup { [status |-> "RuntimeError", solver |-> "maxiter", root |-> NaN] }

Annualise_identity(root) == root

Annualise(root) == FMul(root, Num(freq, 1))

BondInfo_ytm_couponList_results(price) ==
    { [call |-> "BondInfo.ytm_couponList", status |-> o.status,
       solver |-> o.solver, price |-> price,
       value |-> IF o.status = "ok" THEN Annualise(o.root) ELSE NaN] :
      o \in newton({ g \in 1..MaxG : IsZero(BondInfo_equation(g, price)) }) }

FixedRateBond_ytm_couponList_result(price) ==
    [call |-> "FixedRateBond.ytm_couponList", status |-> "ok",
     value |-> "equation", price |-> price]

FixedRateBond_main_newton_results(price) ==
    { [call |-> "FixedRateBond.main.newton", status |-> o.status,
       solver |-> o.solver, price |-> price,
       value |-> IF o.status = "ok" THEN o.root ELSE NaN] :
      o \in newton({ g \in 1..MaxG : IsZero(FixedRateBond_equation(g, price)) }) }

(***************************************************************************)
(* bondmath.IRR.  Line 18 reads price, which is neither a parameter, a     *)
(* local nor a name bound in the module; the handler reads np likewise.    *)
(***************************************************************************)
BondmathGlobals == {"newton", "fsolve", "IRR", "BondCalc"}

IRR_results ==
    IF "price" \notin BondmathGlobals
    THEN { [call |-> "IRR", status |-> "NameError", solver |-> "not started"] }
    ELSE { [call |-> "IRR", status |-> "ok", solver |-> "converged",
            value |-> Num(g - 1, 1)] : g \in 1..MaxG }
         \cup { IF "np" \in BondmathGlobals
                THEN [call |-> "IRR", status |-> "ok", solver |-> "maxiter",
                      value |-> NaN]
                ELSE [call |-> "IRR", status |-> "NameError",
                      solver |-> "maxiter"] }

(***************************************************************************)
(* Spec: a bond is constructed and its methods are called.                 *)
(***************************************************************************)
PriceFreqs == {120, 180}

PriceTDates == { MkDate(2011, 1, 30), MkDate(2011, 2, 26) }

PriceDatePairs ==
    { dd \in PriceTDates \X Dates :
        DateLT(dd[1], dd[2]) /\ NDays(dd[1], dd[2]) <= MaxSpan }

\* per-period coupon rates in percent, alternating 8 and 6
CouponSeries ==
    { [j \in 1..len |-> IF j % 2 = 1 THEN 8 ELSE 6] : len \in 0..MaxLen }

\* annual yields in percent: unspecified (np.nan), or 100*freq*y for the
\* per-period yields y = -2, -1 and g^T - 1
YtmInputs(f) ==
    {NaN} \cup { Num(100 * f * y, 1) :
                   y \in {-2, -1} \cup { IPow(g, 360 \div f) - 1 : g \in 1..MaxG } }

Init ==
    /\ cls \in Classes
    /\ \E dd \in PriceDatePairs : tDate = dd[1] /\ mDate = dd[2]
    /\ freq \in PriceFreqs
    /\ fv = 100
    /\ ac \in (IF cls = "FixedRateBond" THEN {8} ELSE CouponSeries)
    /\ ytm \in YtmInputs(freq)
    /\ calendarDays \in {360, 365}
    /\ n = Unset /\ T = Unset /\ t = Unset
    /\ pc = "new"
    /\ ret = NoRet

\* __init__ (the same statements in both classes): with calendarDays = 360
\* the period fields come from calendar_360; otherwise the branch is `pass`
\* and self.n = n reads a local that was never assigned
Construct ==
    /\ pc = "new"
    /\ IF calendarDays = 360
       THEN LET r == calendar_360(tDate, mDate, freq)
            IN  /\ n' = r.n
                /\ T' = r.T
                /\ t' = r.t
                /\ pc' = "constructed"
                /\ ret' = [call |-> "__init__", status |-> "ok"]
       ELSE /\ UNCHANGED periodInfo
            /\ pc' = "failed"
            /\ ret' = Raise("__init__", "UnboundLocalError")
    /\ UNCHANGED bondInputs

FixedRateBond_init ==
    /\ cls = "FixedRateBond"
    /\ Construct

BondInfo_init ==
    /\ cls = "BondInfo"
    /\ Construct

FixedRateBond_simplePrice ==
    /\ pc = "constructed" /\ cls = "FixedRateBond"
    /\ ret' = FixedRateBond_simplePrice_result
    /\ UNCHANGED <<bondInputs, periodInfo, pc>>

FixedRateBond_dirtyPrice ==
    /\ pc = "constructed" /\ cls = "FixedRateBond"
    /\ ret' = FixedRateBond_dirtyPrice_result
    /\ UNCHANGED <<bondInputs, periodInfo, pc>>

BondInfo_dirtyPrice ==
    /\ pc = "constructed" /\ cls = "BondInfo"
    /\ ret' = BondInfo_dirtyPrice_result
    /\ UNCHANGED <<bondInputs, periodInfo, pc>>

\* observed prices: the value of the schedule at each candidate yield, and 0
FixedRateBond_prices ==
    { FixedRateBond_equation(g, Num(0, 1)) : g \in 1..MaxG } \cup { Num(0, 1) }

BondInfo_prices ==
    { BondInfo_equation(g, Num(0, 1)) : g \in 1..MaxG } \cup { Num(0, 1) }

FixedRateBond_ytm_couponList ==
    /\ pc = "constructed" /\ cls = "FixedRateBond"
    /\ \E price \in FixedRateBond_prices :
          ret' = FixedRateBond_ytm_couponList_result(price)
    /\ UNCHANGED <<bondInputs, periodInfo, pc>>

\* the caller of fixedrate_bond.py, line 190: newton on the returned residual
FixedRateBond_main_newton ==
    /\ pc = "constructed" /\ cls = "FixedRateBond"
    /\ ret.call = "FixedRateBond.ytm_couponList"
    /\ ret' \in FixedRateBond_main_newton_results(ret.price)
    /\ UNCHANGED <<bondInputs, periodInfo, pc>>

BondInfo_ytm_couponList ==
    /\ pc = "constructed" /\ cls = "BondInfo"
    /\ \E price \in BondInfo_prices :
          ret' \in BondInfo_ytm_couponList_results(price)
    /\ UNCHANGED <<bondInputs, periodInfo, pc>>

IRR ==
    /\ pc = "constructed"
    /\ ret' \in IRR_results
    /\ UNCHANGED <<bondInputs, periodInfo, pc>>

Next ==
    \/ FixedRateBond_init
    \/ BondInfo_init
    \/ FixedRateBond_simplePrice
    \/ FixedRateBond_dirtyPrice
    \/ BondInfo_dirtyPrice
    \/ FixedRateBond_ytm_couponList
    \/ FixedRateBond_main_newton
    \/ BondInfo_ytm_couponList
    \/ IRR

Spec == Init /\ [][Next]_vars

(***************************************************************************)
(* Properties of calendar_360, stated for SpecCal.                          *)
(***************************************************************************)
Returned360 == ret.call = "calendar_360" /\ ret.status = "ok"

SameMonth(a, b) == a.year = b.year /\ a.month = b.month

IsFebEnd(d) == d.month = 2 /\ d.day = monthrange(d.year, d.month)

\* C1: for any two dates and any frequency dividing 360, calendar_360
\* returns 0 < t <= T, and t = T exactly when n_days mod T = 0 (the coupon
\* date is t = T, never t = 0).
C1_StubWithinPeriod ==
    Returned360 =>
        /\ 0 < ret.t
        /\ ret.t <= ret.T
        /\ (ret.t = ret.T) <=> (ret.n_days % ret.T = 0)

C1_Witness ==
    /\ Returned360
    /\ ret.n_days > 0
    /\ ret.n_days % ret.T = 0
    /\ ret.t = ret.T

\* C2 as stated: transactionDate < maturityDate and frequency >= 1 give a
\* period count n >= 1.
C2_PeriodCountAtLeastOne ==
    (Returned360 /\ DateLT(tDate, mDate)) => ret.n >= 1

\* C2 amended: with transactionDate < maturityDate, n is an integer >= 0, and
\* n = 0 exactly when the transaction day is the 30th and the maturity day the
\* 31st of the same month (30/360 counts zero days between them); in every
\* other case n >= 1.
C2_PeriodCountNonNegative ==
    (Returned360 /\ DateLT(tDate, mDate)) =>
        /\ ret.n >= 0
        /\ (ret.n = 0) <=>
              (SameMonth(tDate, mDate) /\ tDate.day = 30 /\ mDate.day = 31)

C2_Witness ==
    /\ Returned360
    /\ DateLT(tDate, mDate)
    /\ ret.n_days = 1
    /\ ret.n = 1

\* C3 as stated: n_days = 360*dYear + 30*dMonth + dDay on days normalised so
\* that an end-of-February day is 30, a maturity day 31 is 30 when the
\* transaction day is 30 or 31, and every day above 30 (transaction or
\* maturity) is 30, so both normalised days are <= 30.
C3_BothDaysClamped ==
    Returned360 =>
        LET td == IF IsFebEnd(tDate) THEN 30
                  ELSE IF tDate.day > 30 THEN 30 ELSE tDate.day
            md == IF IsFebEnd(mDate) THEN 30
                  ELSE IF mDate.day > 30 THEN 30 ELSE mDate.day
        IN  /\ ret.t_day <= 30
            /\ ret.m_day <= 30
            /\ ret.n_days = 360 * (mDate.year - tDate.year)
                              + 30 * (mDate.month - tDate.month) + (md - td)

\* C3 amended: n_days = 360*dYear + 30*dMonth + dDay on days normalised so
\* that an end-of-February day is 30, a maturity day 31 is 30 when the
\* (February-normalised) transaction day is 30 or 31, and a transaction day
\* above 30 is 30; a maturity day 31 stays 31 when the transaction day is
\* below 30, so only the normalised transaction day is always <= 30.
C3_TransactionDayClamped ==
    Returned360 =>
        LET td == IF IsFebEnd(tDate) THEN 30
                  ELSE IF tDate.day > 30 THEN 30 ELSE tDate.day
            md == IF IsFebEnd(mDate) THEN 30
                  ELSE IF mDate.day = 31 /\ (tDate.day >= 30 \/ IsFebEnd(tDate))
                       THEN 30 ELSE mDate.day
        IN  /\ ret.t_day = td
            /\ ret.t_day <= 30
            /\ ret.m_day = md
            /\ (ret.m_day = 31) <=> (mDate.day = 31 /\ td < 30)
            /\ ret.n_days = 360 * (mDate.year - tDate.year)
                              + 30 * (mDate.month - tDate.month) + (md - td)

C3_Witness ==
    /\ Returned360
    /\ tDate.day < 30
    /\ mDate.day = 31
    /\ ret.m_day = 31

(***************************************************************************)
(* Properties of construction, pricing and yield solving, stated for Spec. *)
(***************************************************************************)
PriceCalls == {"FixedRateBond.dirtyPrice", "BondInfo.dirtyPrice"}

Priced == pc = "constructed" /\ ret.call \in PriceCalls

YieldAbove(c) == IsNum(ytm) /\ self_y.p > c * self_y.q

YieldAtMost(c) == IsNum(ytm) /\ self_y.p <= c * self_y.q

SeriesCovers == cls = "BondInfo" => Len(ac) >= n

FirstCoupon == IF cls = "BondInfo" THEN self_pmts[1] ELSE self_pmt

\* C4: a bond with t = T (coupon date) and n >= 1, priced at a yield y > -1:
\* dirtyPrice() returns accruedInterest = 0 and cleanPrice = dirtyPrice, in
\* FixedRateBond and in BondInfo.
C4_OnCouponNoAccrual ==
    (Priced /\ t = T /\ n >= 1 /\ YieldAbove(-1) /\ SeriesCovers) =>
        /\ ret.status = "ok"
        /\ IsZero(ret.accruedInterest)
        /\ FEq(ret.cleanPrice, ret.dirtyPrice)

\* C5: a bond with t < T (stub) and n >= 1, priced at a yield y > 0:
\* cleanPrice = dirtyPrice - accruedInterest, and accruedInterest = (t/T)
\* times the coupon of the first upcoming cash flow (period 1), also when the
\* coupons are a per-period series.
C5_StubAccruesFirstCoupon ==
    (Priced /\ t < T /\ n >= 1 /\ YieldAbove(0) /\ SeriesCovers) =>
        /\ ret.status = "ok"
        /\ FEq(ret.cleanPrice, FSub(ret.dirtyPrice, ret.accruedInterest))
        /\ FEq(ret.accruedInterest, FMul(Num(t, T), FirstCoupon))

\* C8: with a coupon series of fewer than n entries, pricing and yield
\* solving produce no price and no yield (the call fails), and a price that
\* is produced sums exactly n coupon flows.
C8_ShortSeriesRejected ==
    /\ (/\ pc = "constructed"
        /\ ret.call \in {"BondInfo.dirtyPrice", "BondInfo.ytm_couponList"}
        /\ YieldAbove(0)
        /\ Len(ac) < n) => ret.status # "ok"
    /\ (Priced /\ ret.status = "ok") => ret.terms = n

\* C9: pricing at a per-period yield y <= -1 (y = -1 included) returns no
\* price: the call fails.
C9_YieldDomainChecked ==
    (Priced /\ YieldAtMost(-1)) => ret.status # "ok"

\* C10: constructing a bond with a day-count basis other than 360 (the
\* default 365 included) completes, leaving a constructed bond.
C10_ActualBasisConstructs ==
    (ret.call = "__init__" /\ calendarDays # 360) =>
        /\ ret.status = "ok"
        /\ pc = "constructed"

\* x is a zero of the residual: x is one of the candidate yields and the
\* residual vanishes there (with n >= 1 the flows are positive and the
\* residual is strictly decreasing in x, so it has no other zero)
IsRootOfBondInfo(x, price) ==
    \E g \in 1..MaxG : x = YieldOf(g) /\ IsZero(BondInfo_equation(g, price))

IsRootOfFixedRateBond(x, price) ==
    \E g \in 1..MaxG : x = YieldOf(g) /\ IsZero(FixedRateBond_equation(g, price))

\* C6 as stated: for a bond with n >= 1, the value the yield solver returns
\* is the per-period root of the residual, not multiplied by frequency.
C6_SolverReturnsPeriodRoot ==
    /\ (ret.call = "BondInfo.ytm_couponList" /\ ret.status = "ok" /\ n >= 1) =>
          IsRootOfBondInfo(ret.value, ret.price)
    /\ (ret.call = "FixedRateBond.main.newton" /\ ret.status = "ok" /\ n >= 1) =>
          IsRootOfFixedRateBond(ret.value, ret.price)

\* C6 amended: for a bond with n >= 1, BondInfo.ytm_couponList returns the per-period root of the
\* residual multiplied by frequency (the nominal annual yield), so the
\* returned value divided by frequency is the root;
\* FixedRateBond.ytm_couponList returns the residual itself, and the root its
\* caller finds on it is the per-period rate, not multiplied.
C6_BondInfoReturnsAnnualisedRoot ==
    /\ (ret.call = "BondInfo.ytm_couponList" /\ ret.status = "ok" /\ n >= 1) =>
          IsRootOfBondInfo(FDiv(ret.value, Num(freq, 1)), ret.price)
    /\ ret.call = "FixedRateBond.ytm_couponList" => ret.value = "equation"
    /\ (ret.call = "FixedRateBond.main.newton" /\ ret.status = "ok" /\ n >= 1) =>
          IsRootOfFixedRateBond(ret.value, ret.price)

C6_Witness ==
    /\ ret.call = "BondInfo.ytm_couponList"
    /\ ret.status = "ok"
    /\ n >= 1
    /\ ret.value.p > 0
    /\ ret.value # FDiv(ret.value, Num(freq, 1))
    /\ IsRootOfBondInfo(FDiv(ret.value, Num(freq, 1)), ret.price)

\* C7: when the solver reaches its iteration limit on a bond with n >= 1
\* whose series covers n, the call fails with ConvergenceError (and returns
\* no value).
C7_NonConvergenceRaises ==
    (pc = "constructed" /\ n >= 1 /\ SeriesCovers
        /\ ret.call \in {"BondInfo.ytm_couponList", "FixedRateBond.main.newton", "IRR"}
        /\ ret.solver = "maxiter") => ret.status = "ConvergenceError"

====
